---- MODULE Spec2Model ----
(***************************************************************************)
(* Retro racing game: the car's kinematic model (src/src/car.py), the      *)
(* track's geometry (src/src/track.py), the game engine                    *)
(* (src/src/GameEngine.py) and the main loop (src/src/Main.py).            *)
(*                                                                         *)
(* Numbers.  The program computes in Python floats; the model computes in  *)
(* exact fixed point, so that "exactly" in a property means exactly:       *)
(*   speed, acceleration, friction ...  in hundredths   (0.01 px/tick)     *)
(*   angle                              in 1e-4 rad                        *)
(*   cos, sin                           in 1e-4                            *)
(*   x, y                               in 1e-6 px  (= 1e-2 * 1e-4)        *)
(* Every tunable of Car.__init__ is a whole number of these units, and so  *)
(* is every value the car reaches from them.                               *)
(*                                                                         *)
(* Track points are pairs of whole pixels.  A distance is kept as its      *)
(* square (math.sqrt is strictly increasing, so `<` and `<=` between       *)
(* distances are `<` and `<=` between their squares), a quotient by its    *)
(* numerator and denominator, and a coordinate of a boundary point as      *)
(* c + p / sqrt(length2) with whole c, p and length2: real arithmetic      *)
(* without rounding.                                                       *)
(***************************************************************************)
EXTENDS Integers, Sequences, FiniteSets, TLC

VARIABLES
    \* Car (car.py:23-46)
    x, y, angle, speed, acceleration,
    is_accelerating, is_braking, is_turning_left, is_turning_right,
    \* Track (track.py:34-44)
    track_points, inner_boundary, outer_boundary, checkpoints, start_line,
    \* the arguments and the return value of the last Track query
    position, threshold, nearest_idx, on_start_line,
    \* GameEngine (GameEngine.py:27-33), a record of its fields
    engine,
    \* main (Main.py:37-46, 49): its locals, and the time.time() of the
    \* next reading less start_time, in seconds
    running, elapsed_time, remaining_time, events, clock,
    \* history of the model, not of the program: the car as it was when the
    \* last operation began, the operation last performed, and the number of
    \* Car.update calls so far
    before, op, ticks

carVars == <<x, y, angle, speed, acceleration,
             is_accelerating, is_braking, is_turning_left, is_turning_right>>
trackVars == <<track_points, inner_boundary, outer_boundary, checkpoints,
               start_line>>
queryVars == <<position, threshold, nearest_idx, on_start_line>>
mainVars == <<running, elapsed_time, remaining_time, events, clock>>
gameVars == <<engine, mainVars>>
vars == <<carVars, trackVars, queryVars, gameVars, before, op, ticks>>

---------------------------------------------------------------------------
(* Bounds of the model *)

\* Car.update is called at most MaxTicks times in Spec (x and y grow with
\* every tick).
MaxTicks == 5
\* The specifications that run _apply_physics without a tick bound keep the
\* heading within [-MaxAngle, MaxAngle] (1e-4 rad): a steering step that
\* would leave this range is not taken.
MaxAngle == 12
\* A centerline has at most MaxPoints points.
MaxPoints == 3
\* In SpecCoast the keys are free for at most MaxDriveTicks calls of
\* Car.update, and UP and DOWN are released from then on.
MaxDriveTicks == 2

---------------------------------------------------------------------------
(* Car.__init__ tunables, car.py:31-36 *)

max_speed == 1000
max_reverse_speed == -500
acceleration_rate == 10
deceleration_rate == 5
\* 0.1 rad, in 1e-4 rad
steering_rate == 1000
friction == 2
\* car.py:159, the literal 0.1 of `abs(self.speed) > 0.1`
steering_dead_zone == 10
\* Car.__init__ defaults x=400, y=300, in 1e-6 px
start_x == 400000000
start_y == 300000000

Abs(v) == IF v < 0 THEN -v ELSE v
Min(a, b) == IF a < b THEN a ELSE b
Max(a, b) == IF a > b THEN a ELSE b

---------------------------------------------------------------------------
(* Car._apply_physics, car.py:132-164, step by step *)

\* SelectAcceleration with the two tests in the other order
SelectAccelerationBrakeFirst(acc, brk) ==
    IF brk THEN -deceleration_rate
    ELSE IF acc THEN acceleration_rate
    ELSE 0

\* car.py:135-140
SelectAcceleration(acc, brk) ==
    IF acc THEN acceleration_rate
    ELSE IF brk THEN -deceleration_rate
    ELSE 0

\* ApplyFriction without the two resets to 0 (car.py:148-149, 152-153)
ApplyFrictionNoStop(s) ==
    IF s > 0 THEN s - friction
    ELSE IF s < 0 THEN s + friction
    ELSE s

\* ApplyFriction taking acceleration_rate for friction
ApplyFrictionFullRate(s) ==
    IF s > 0 THEN (IF s - acceleration_rate < 0 THEN 0 ELSE s - acceleration_rate)
    ELSE IF s < 0 THEN (IF s + acceleration_rate > 0 THEN 0 ELSE s + acceleration_rate)
    ELSE s

\* car.py:146-153
ApplyFriction(s) ==
    IF s > 0 THEN (IF s - friction < 0 THEN 0 ELSE s - friction)
    ELSE IF s < 0 THEN (IF s + friction > 0 THEN 0 ELSE s + friction)
    ELSE s

\* ClampSpeed without min(self.max_speed, ...)
ClampSpeedNoUpperLimit(s) == Max(max_reverse_speed, s)

\* ClampSpeed with 0 for the lower limit: no reversing
ClampSpeedNoReverse(s) == Max(0, Min(max_speed, s))

\* car.py:156
ClampSpeed(s) == Max(max_reverse_speed, Min(max_speed, s))

\* car.py:143-156: the speed after integration, friction and clamp
NextSpeed(s, a) == ClampSpeed(ApplyFriction(s + a))

\* SteeringFactor from abs(speed): the same direction forwards and reversing
SteeringFactorUnsigned(s) == (steering_rate * Abs(s)) \div max_speed

\* car.py:160; steering_rate * (speed / max_speed), exact here because
\* steering_rate = max_speed in the model's units
SteeringFactor(s) == (steering_rate * s) \div max_speed

\* Steer with the test `abs(self.speed) > 0` in place of `> 0.1`
SteerNoDeadZone(a, s, left, right) ==
    IF Abs(s) > 0
    THEN LET f == SteeringFactor(s)
             a1 == IF left THEN a - f ELSE a
         IN  IF right THEN a1 + f ELSE a1
    ELSE a

\* car.py:159-164, s is the speed after the clamp
Steer(a, s, left, right) ==
    IF Abs(s) > steering_dead_zone
    THEN LET f == SteeringFactor(s)
             a1 == IF left THEN a - f ELSE a
         IN  IF right THEN a1 + f ELSE a1
    ELSE a

---------------------------------------------------------------------------
(* Car._update_position, car.py:166-174 *)

\* math.cos and math.sin in 1e-4 fixed point for an angle in 1e-4 rad, by
\* their Taylor polynomials; the next terms are below one unit for
\* |a| <= 1200 (0.12 rad), which covers every heading Spec reaches.
Cos(a) == 10000 - (a * a) \div 20000
Sin(a) ==
    LET m == Abs(a)
        v == m - (m * m * m) \div 600000000
    IN  IF a < 0 THEN -v ELSE v

\* car.py:169-170
Dx(a, s) == Cos(a) * s
Dy(a, s) == Sin(a) * s

---------------------------------------------------------------------------
(* Track, track.py *)

\* track.py:29
track_width == 100
\* track.py:110
half_width == track_width \div 2
\* track.py:44, start_line = None
NoStartLine == <<>>
\* track.py:179, float('inf') as a squared distance
Infinity == -1

\* the points a centerline and a start line are drawn from (even
\* coordinates, so that the midpoint of two of them is a whole pixel)
GridPoints == ({0, 2} \X {0, 2}) \cup {<<4, 0>>}
Centerlines == UNION {[1..n -> GridPoints] : n \in 0..MaxPoints}
\* the positions get_checkpoint_index is asked about
CheckPositions == (0..5) \X (0..3)
\* the positions and thresholds is_on_start_line is asked about: on and
\* around the grid, and at distances 20 and 21 from it
StartCoords == {-21, -20, 0, 1, 2, 22, 23}
StartPositions == StartCoords \X StartCoords
Thresholds == {0, 1, 20}
StartLines == {NoStartLine} \cup (GridPoints \X GridPoints)

\* dx*dx + dy*dy of track.py:185, 213, 217, 227: the square of the
\* Euclidean distance between two points
SqDist(p, q) == (p[1] - q[1]) * (p[1] - q[1]) + (p[2] - q[2]) * (p[2] - q[2])

\* Normalise dividing by the length without the test `length > 0`:
\* length2 = 0 stands for the division by zero
NormaliseNoGuard(dx, dy) ==
    [dx |-> dx, dy |-> dy, length2 |-> dx * dx + dy * dy]

\* Normalise without the two divisions
NormaliseNoDivision(dx, dy) == [dx |-> dx, dy |-> dy, length2 |-> 1]

\* track.py:100-103: the vector (dx, dy) / sqrt(length2); a zero vector is
\* left as it is
Normalise(dx, dy) ==
    LET l2 == dx * dx + dy * dy
    IN  IF l2 > 0 THEN [dx |-> dx, dy |-> dy, length2 |-> l2]
        ELSE [dx |-> dx, dy |-> dy, length2 |-> 1]

\* track.py:91-107: the perpendicular (-dy, dx) of the normalised edge from
\* points[i] to its successor (i counts from 1; the successor of the last
\* point is the first)
Perpendicular(points, i) ==
    LET current == points[i]
        next_point == points[(i % Len(points)) + 1]
        d == Normalise(next_point[1] - current[1], next_point[2] - current[2])
    IN  [x |-> -d.dy, y |-> d.dx, length2 |-> d.length2]

\* track.py:111-112: the point (cx + px / sqrt(length2), cy + py / sqrt(length2))
InnerPoint(points, i) ==
    LET n == Perpendicular(points, i)
    IN  [cx |-> points[i][1], cy |-> points[i][2],
         px |-> -(n.x * half_width), py |-> -(n.y * half_width),
         length2 |-> n.length2]

\* track.py:113-114
OuterPoint(points, i) ==
    LET n == Perpendicular(points, i)
    IN  [cx |-> points[i][1], cy |-> points[i][2],
         px |-> n.x * half_width, py |-> n.y * half_width,
         length2 |-> n.length2]

\* CloserThan with `<=` in place of `<`
CloserOrEqual(distance, min_distance) ==
    min_distance = Infinity \/ distance <= min_distance

\* track.py:187, `distance < min_distance`
CloserThan(distance, min_distance) ==
    min_distance = Infinity \/ distance < min_distance

\* track.py:182-189: the loop from checkpoint i on (i counts from 1, the
\* index returned counts from 0 as in the program)
RECURSIVE ScanCheckpoints(_, _, _, _, _)
ScanCheckpoints(cps, pos, i, min_distance, nearest) ==
    IF i > Len(cps) THEN nearest
    ELSE LET distance == SqDist(pos, cps[i])
         IN  IF CloserThan(distance, min_distance)
             THEN ScanCheckpoints(cps, pos, i + 1, distance, i - 1)
             ELSE ScanCheckpoints(cps, pos, i + 1, min_distance, nearest)

\* Track.get_checkpoint_index, track.py:168-191
GetCheckpointIndexOf(cps, pos) == ScanCheckpoints(cps, pos, 1, Infinity, 0)

\* ClampUnit without the clamp
ClampUnitNone(num, den) == num

\* track.py:220, max(0, min(1, num / den)) for den > 0, as a numerator
\* over den
ClampUnit(num, den) == Max(0, Min(den, num))

\* Track.is_on_start_line, track.py:193-229
IsOnStartLineOf(line, pos, th) ==
    IF line = NoStartLine THEN FALSE
    ELSE LET x1 == line[1][1]
             y1 == line[1][2]
             x2 == line[2][1]
             y2 == line[2][2]
             l2 == (x2 - x1) * (x2 - x1) + (y2 - y1) * (y2 - y1)
         IN  IF l2 = 0
             THEN SqDist(pos, line[1]) <= th * th
             ELSE LET \* t = tn / l2
                      tn == ClampUnit((pos[1] - x1) * (x2 - x1)
                                        + (pos[2] - y1) * (y2 - y1), l2)
                      \* px = pxn / l2, py = pyn / l2
                      pxn == x1 * l2 + tn * (x2 - x1)
                      pyn == y1 * l2 + tn * (y2 - y1)
                      \* distance^2 = d2n / l2^2
                      d2n == (pos[1] * l2 - pxn) * (pos[1] * l2 - pxn)
                               + (pos[2] * l2 - pyn) * (pos[2] * l2 - pyn)
                  IN  d2n <= th * th * l2 * l2

---------------------------------------------------------------------------
(* GameEngine, GameEngine.py, and main, Main.py *)

\* GameEngine.py:33, 0.5 in hundredths
medium_difficulty == 50
\* Main.py:21, seconds
TIME_LIMIT == 120

\* GameEngine.__init__, GameEngine.py:27-33; best_lap_time is float('inf')
NewEngine ==
    [lap_count |-> 0, best_lap_time |-> Infinity, current_lap_start_time |-> 0,
     last_checkpoint |-> 0, difficulty_level |-> medium_difficulty]

\* the inputs of the main loop: what pygame.event.get() returns in a tick,
\* and the seconds a tick takes
EventLists ==
    {<<>>, <<"QUIT">>, <<"KEYDOWN_ESCAPE">>, <<"KEYDOWN_OTHER">>,
     <<"KEYDOWN_OTHER", "QUIT">>, <<"KEYDOWN_ESCAPE", "KEYDOWN_OTHER">>}
TickDurations == {40, 60, 130}
\* the keys held in a tick of the main loop: up, down, left, right
KeyStates ==
    {<<FALSE, FALSE, FALSE, FALSE>>, <<TRUE, FALSE, FALSE, FALSE>>,
     <<TRUE, FALSE, TRUE, FALSE>>, <<FALSE, TRUE, FALSE, TRUE>>}
\* the track the engine is given: a small closed centerline of whole pixels
\* in place of the oval of track.py:58-73 (no operation of the engine reads
\* the track), and the cars it is given: Car(x=0, y=0), on the start line,
\* and the default Car()
SampleCenterline == <<<<0, 0>>, <<1, 0>>, <<1, 1>>, <<0, 1>>>>
CarStarts == {<<0, 0>>, <<start_x, start_y>>}

\* Car.get_position, car.py:200-202, to the nearest whole pixel
CarPixel(cx, cy) == <<(cx + 500000) \div 1000000, (cy + 500000) \div 1000000>>

\* GameEngine._check_track_collisions, GameEngine.py:74-77: pass
CheckTrackCollisions(e) == e
\* GameEngine._check_obstacle_collisions, GameEngine.py:79-82: pass
CheckObstacleCollisions(e) == e
\* GameEngine._check_power_up_collection, GameEngine.py:84-87: pass
CheckPowerUpCollection(e) == e

\* CheckLapCompletion counting a lap whenever the car is on the start line
CheckLapCompletionCounting(e, elapsed) ==
    IF IsOnStartLineOf(start_line, CarPixel(x', y'), 20)
    THEN [e EXCEPT !.lap_count = @ + 1, !.current_lap_start_time = elapsed]
    ELSE e

\* GameEngine._check_lap_completion, GameEngine.py:89-97: pass
CheckLapCompletion(e, elapsed) == e
\* GameEngine._update_difficulty, GameEngine.py:99-104: pass
UpdateDifficulty(e) == e

\* Main.py:49-54: running after the events of a tick
ProcessEvents(evs, run) ==
    IF \E i \in 1..Len(evs) : evs[i] \in {"QUIT", "KEYDOWN_ESCAPE"}
    THEN FALSE
    ELSE run

\* TimeLimitCheck with `<` in place of `<=`
TimeLimitCheckStrict(run, remaining) == IF remaining < 0 THEN FALSE ELSE run

\* Main.py:61-62
TimeLimitCheck(run, remaining) == IF remaining <= 0 THEN FALSE ELSE run

---------------------------------------------------------------------------
(* Operations *)

Snapshot == [x |-> x, y |-> y, angle |-> angle, speed |-> speed,
             acceleration |-> acceleration]

\* Car.__init__, car.py:23-46
InitCar ==
    /\ x = start_x
    /\ y = start_y
    /\ angle = 0
    /\ speed = 0
    /\ acceleration = 0
    /\ is_accelerating = FALSE
    /\ is_braking = FALSE
    /\ is_turning_left = FALSE
    /\ is_turning_right = FALSE

\* Car._handle_player_input, car.py:105-118: the four flags are reset and
\* then set from the keys UP, DOWN, LEFT, RIGHT
HandlePlayerInput(up, down, left, right) ==
    /\ is_accelerating' = up
    /\ is_braking' = down
    /\ is_turning_left' = left
    /\ is_turning_right' = right

\* Car._apply_physics, car.py:132-164, reading the flags just set
ApplyPhysics ==
    /\ acceleration' = SelectAcceleration(is_accelerating', is_braking')
    /\ speed' = NextSpeed(speed, acceleration')
    /\ angle' = Steer(angle, speed', is_turning_left', is_turning_right')

\* UpdatePosition reading the angle and speed of before the physics step
UpdatePositionStale ==
    /\ x' = x + Dx(angle, speed)
    /\ y' = y + Dy(angle, speed)

\* Car._update_position, car.py:166-174, reading the new angle and speed
UpdatePosition ==
    /\ x' = x + Dx(angle', speed')
    /\ y' = y + Dy(angle', speed')

\* Car.update for the player's car, car.py:83-92 (_update_image only
\* redraws)
Update(up, down, left, right) ==
    /\ ticks < MaxTicks
    /\ HandlePlayerInput(up, down, left, right)
    /\ ApplyPhysics
    /\ UpdatePosition
    /\ before' = Snapshot
    /\ op' = "update"
    /\ ticks' = ticks + 1
    /\ UNCHANGED <<trackVars, queryVars>>

\* _handle_player_input followed by _apply_physics alone: the position is
\* not integrated, the heading stays within the model's range
PhysicsTick(up, down, left, right) ==
    /\ HandlePlayerInput(up, down, left, right)
    /\ ApplyPhysics
    /\ Abs(angle') <= MaxAngle
    /\ before' = Snapshot
    /\ op' = "apply_physics"
    /\ UNCHANGED <<x, y, ticks, trackVars, queryVars, gameVars>>

\* Car.update with UP and DOWN released (no control intent), any number of
\* times
Coast(left, right) ==
    /\ HandlePlayerInput(FALSE, FALSE, left, right)
    /\ ApplyPhysics
    /\ UpdatePosition
    /\ before' = Snapshot
    /\ op' = "coast"
    /\ UNCHANGED <<ticks, trackVars, queryVars, gameVars>>

\* Car.update with any keys, while the keys are still free
Drive(up, down, left, right) ==
    /\ op # "coast"
    /\ ticks < MaxDriveTicks
    /\ Update(up, down, left, right)
    /\ UNCHANGED gameVars

\* Track.__init__ before _generate_track, track.py:34-44
InitTrack ==
    /\ track_points = <<>>
    /\ inner_boundary = <<>>
    /\ outer_boundary = <<>>
    /\ checkpoints = <<>>
    /\ start_line = NoStartLine

\* no query made yet; 20 is the default threshold of track.py:193
InitQuery ==
    /\ position = <<0, 0>>
    /\ threshold = 20
    /\ nearest_idx = 0
    /\ on_start_line = FALSE

\* Track._generate_boundaries, track.py:84-118
GenerateBoundaries ==
    /\ inner_boundary' = [i \in 1..Len(track_points) |-> InnerPoint(track_points, i)]
    /\ outer_boundary' = [i \in 1..Len(track_points) |-> OuterPoint(track_points, i)]
    /\ op' = "generate_boundaries"
    /\ UNCHANGED <<carVars, track_points, checkpoints, start_line, queryVars,
                   gameVars, before, ticks>>

\* Track._generate_checkpoints, track.py:120-123
GenerateCheckpoints ==
    /\ checkpoints' = track_points
    /\ op' = "generate_checkpoints"
    /\ UNCHANGED <<carVars, track_points, inner_boundary, outer_boundary,
                   start_line, queryVars, gameVars, before, ticks>>

\* a call of Track.get_checkpoint_index, track.py:168-191
GetCheckpointIndex(pos) ==
    /\ position' = pos
    /\ nearest_idx' = GetCheckpointIndexOf(checkpoints, pos)
    /\ op' = "get_checkpoint_index"
    /\ UNCHANGED <<carVars, trackVars, threshold, on_start_line, gameVars,
                   before, ticks>>

\* a call of Track.is_on_start_line, track.py:193-229
IsOnStartLine(pos, th) ==
    /\ position' = pos
    /\ threshold' = th
    /\ on_start_line' = IsOnStartLineOf(start_line, pos, th)
    /\ op' = "is_on_start_line"
    /\ UNCHANGED <<carVars, trackVars, nearest_idx, gameVars, before, ticks>>

\* GameEngine.__init__, GameEngine.py:23-41, and main before its loop,
\* Main.py:37-39 (the loop's locals not yet assigned read 0 and <<>>)
InitGame ==
    /\ engine = NewEngine
    /\ running = TRUE
    /\ elapsed_time = 0
    /\ remaining_time = TIME_LIMIT
    /\ events = <<>>
    /\ clock = 0

\* Track._generate_track from line 76 on, for the centerline points:
\* boundaries, checkpoints and start line (track.py:76-82)
InitTrackOf(points) ==
    /\ track_points = points
    /\ inner_boundary = [i \in 1..Len(points) |-> InnerPoint(points, i)]
    /\ outer_boundary = [i \in 1..Len(points) |-> OuterPoint(points, i)]
    /\ checkpoints = points
    /\ start_line = <<points[1], points[Len(points)]>>

\* Car(is_player=True, x=cx, y=cy), car.py:23-46
InitCarAt(cx, cy) ==
    /\ x = cx
    /\ y = cy
    /\ angle = 0
    /\ speed = 0
    /\ acceleration = 0
    /\ is_accelerating = FALSE
    /\ is_braking = FALSE
    /\ is_turning_left = FALSE
    /\ is_turning_right = FALSE
    /\ before = [x |-> cx, y |-> cy, angle |-> 0, speed |-> 0,
                 acceleration |-> 0]
    /\ op = "init"
    /\ ticks = 0

\* GameEngine.update, GameEngine.py:48-72: the car's update, then the five
\* checks in their order
EngineUpdate(up, down, left, right, elapsed) ==
    /\ Update(up, down, left, right)
    /\ engine' = UpdateDifficulty(
                    CheckLapCompletion(
                        CheckPowerUpCollection(
                            CheckObstacleCollisions(
                                CheckTrackCollisions(engine))),
                        elapsed))

\* one pass of the loop of main, Main.py:42-73 (rendering draws only);
\* dt is the time the pass takes
MainTick(evs, up, down, left, right, dt) ==
    /\ running
    /\ elapsed_time' = clock
    /\ remaining_time' = Max(0, TIME_LIMIT - elapsed_time')
    /\ events' = evs
    /\ EngineUpdate(up, down, left, right, elapsed_time')
    /\ running' = TimeLimitCheck(ProcessEvents(evs, running), remaining_time')
    /\ clock' = clock + dt

---------------------------------------------------------------------------
(* Specifications *)

InitHistory ==
    /\ before = [x |-> start_x, y |-> start_y, angle |-> 0, speed |-> 0,
                 acceleration |-> 0]
    /\ op = "init"
    /\ ticks = 0

Init == InitCar /\ InitTrack /\ InitQuery /\ InitGame /\ InitHistory

\* The player's car driven by Car.update with any keys
Next ==
    \E up, down, left, right \in BOOLEAN :
        Update(up, down, left, right) /\ UNCHANGED gameVars
Spec == Init /\ [][Next]_vars

\* _apply_physics run any number of times with any flags
NextPhysics ==
    \E up, down, left, right \in BOOLEAN : PhysicsTick(up, down, left, right)
SpecPhysics == Init /\ [][NextPhysics]_vars

\* UP held and DOWN released on every tick; the loop of Main.py:42-73 runs a
\* tick whenever it can, hence the weak fairness
NextAccelerate == \E left, right \in BOOLEAN : PhysicsTick(TRUE, FALSE, left, right)
SpecAccelerate == Init /\ [][NextAccelerate]_vars /\ WF_vars(NextAccelerate)

\* DOWN held and UP released on every tick
NextBrake == \E left, right \in BOOLEAN : PhysicsTick(FALSE, TRUE, left, right)
SpecBrake == Init /\ [][NextBrake]_vars /\ WF_vars(NextBrake)

\* Any keys for a few ticks, then UP and DOWN released for good; the loop
\* of Main.py:42-73 keeps ticking
Release == \E left, right \in BOOLEAN : Coast(left, right)
NextCoast ==
    \/ \E up, down, left, right \in BOOLEAN : Drive(up, down, left, right)
    \/ Release
SpecCoast == Init /\ [][NextCoast]_vars /\ WF_vars(Release)

\* A track with any centerline of the grid: its boundaries and checkpoints
\* are generated and get_checkpoint_index is asked about any position
InitGeometry ==
    /\ InitCar /\ InitQuery /\ InitGame /\ InitHistory
    /\ track_points \in Centerlines
    /\ inner_boundary = <<>>
    /\ outer_boundary = <<>>
    /\ checkpoints = <<>>
    /\ start_line = NoStartLine
NextGeometry ==
    \/ GenerateBoundaries
    \/ GenerateCheckpoints
    \/ \E pos \in CheckPositions : GetCheckpointIndex(pos)
SpecGeometry == InitGeometry /\ [][NextGeometry]_vars

\* A track with any start line between two grid points, or none:
\* is_on_start_line is asked about any position and threshold
InitStartLine ==
    /\ InitCar /\ InitQuery /\ InitGame /\ InitHistory
    /\ track_points = <<>>
    /\ inner_boundary = <<>>
    /\ outer_boundary = <<>>
    /\ checkpoints = <<>>
    /\ start_line \in StartLines
NextStartLine ==
    \E pos \in StartPositions, th \in Thresholds : IsOnStartLine(pos, th)
SpecStartLine == InitStartLine /\ [][NextStartLine]_vars

\* The engine with a generated track and a car, updated with any keys
InitEngine ==
    /\ \E c \in CarStarts : InitCarAt(c[1], c[2])
    /\ InitTrackOf(SampleCenterline)
    /\ InitQuery /\ InitGame
NextEngine ==
    \E up, down, left, right \in BOOLEAN, elapsed \in TickDurations :
        EngineUpdate(up, down, left, right, elapsed) /\ UNCHANGED mainVars
SpecEngine == InitEngine /\ [][NextEngine]_vars

\* main, Main.py:31-77: the default car, and the loop running while it can
InitMain ==
    /\ InitCarAt(start_x, start_y)
    /\ InitTrackOf(SampleCenterline)
    /\ InitQuery /\ InitGame
NextMain ==
    \E evs \in EventLists, keys \in KeyStates, dt \in TickDurations :
        MainTick(evs, keys[1], keys[2], keys[3], keys[4], dt)
SpecMain == InitMain /\ [][NextMain]_vars /\ WF_vars(NextMain)

---------------------------------------------------------------------------
(* Properties of the car *)

NoControlIntent == ~is_accelerating /\ ~is_braking

\* C1: after every call of _apply_physics, whatever the four flags of each
\* tick were, starting from speed 0, the speed lies within
\* [max_reverse_speed, max_speed] = [-5, 10].
C1_SpeedWithinLimits == max_reverse_speed <= speed /\ speed <= max_speed

\* a tick whose integrated speed was above max_speed and was clamped to it
C1_Witness ==
    /\ op = "apply_physics"
    /\ ApplyFriction(before.speed + acceleration) > max_speed
    /\ speed = max_speed

\* C2: a car at rest that receives accelerate and no brake on every tick:
\* each tick that starts below max_speed ends with a strictly greater speed,
\* the speed reaches exactly max_speed, and every tick that starts at
\* max_speed ends at max_speed.
C2_AccelerateToMaxSpeed ==
    /\ [][speed < max_speed => speed' > speed]_vars
    /\ <>(speed = max_speed)
    /\ [][speed = max_speed => speed' = max_speed]_vars

\* an accelerating tick that began at max_speed and ended at max_speed
C2_Witness ==
    /\ op = "apply_physics"
    /\ is_accelerating /\ ~is_braking
    /\ before.speed = max_speed
    /\ speed = max_speed

\* C3 as stated: every tick with no control intent that starts with
\* speed > 0 ends with exactly the speed before minus the friction
\* magnitude, and never below 0.
C3_FrictionExactAsStated ==
    (op = "apply_physics" /\ NoControlIntent /\ before.speed > 0)
        => (speed = before.speed - friction /\ speed >= 0)

\* C3, amended: every tick with no control intent that starts with speed > 0
\* ends with the speed before minus the friction magnitude when the speed
\* before is at least the friction magnitude, and with exactly 0 when it is
\* smaller; the speed after is never below 0.
C3_FrictionStopsAtZero ==
    (op = "apply_physics" /\ NoControlIntent /\ before.speed > 0)
        => /\ before.speed >= friction => speed = before.speed - friction
           /\ before.speed < friction => speed = 0
           /\ speed >= 0

\* a coasting tick that began with a positive speed below the friction
\* magnitude
C3_Witness ==
    /\ op = "apply_physics"
    /\ NoControlIntent
    /\ before.speed > 0 /\ before.speed < friction
    /\ speed = 0

\* C4: a tick whose speed, as the steering step reads it (after integration,
\* friction and clamp), satisfies |speed| <= 0.1 leaves the heading as it
\* was, whatever steerLeft and steerRight are; and so does every tick
\* without accelerate and brake that begins with |speed| <= 0.1, a car at
\* rest in particular.
C4_SteeringDeadZone ==
    /\ (op = "apply_physics" /\ Abs(speed) <= steering_dead_zone)
           => angle = before.angle
    /\ (op = "apply_physics" /\ NoControlIntent
           /\ Abs(before.speed) <= steering_dead_zone)
           => angle = before.angle

\* a tick that steers left at the edge of the dead zone, from a heading
\* that earlier steering had changed
C4_Witness ==
    /\ op = "apply_physics"
    /\ speed = steering_dead_zone
    /\ is_turning_left /\ ~is_turning_right
    /\ angle # 0
    /\ angle = before.angle

\* C5: the acceleration a tick sets is +acceleration_rate when accelerate is
\* set (brake set or not), -deceleration_rate when only brake is set and 0
\* when neither is, whatever the acceleration of the previous tick was.
C5_AccelerationFromFlags ==
    op = "apply_physics" =>
        /\ is_accelerating => acceleration = acceleration_rate
        /\ (~is_accelerating /\ is_braking) => acceleration = -deceleration_rate
        /\ NoControlIntent => acceleration = 0

\* a tick with accelerate and brake both set, after a braking tick
C5_Witness ==
    /\ op = "apply_physics"
    /\ is_accelerating /\ is_braking
    /\ before.acceleration = -deceleration_rate
    /\ acceleration = acceleration_rate

\* C6: every Car.update moves the position by (cos(angle) * speed,
\* sin(angle) * speed) for the angle and speed of after its physics step;
\* the first tick of a new car with only accelerate set gives
\* speed = acceleration_rate - friction, x increased by that speed (one
\* hundredth of a pixel is 10000 units of x) and y unchanged.
C6_PositionUpdate ==
    /\ op = "update" =>
        /\ x - before.x = Cos(angle) * speed
        /\ y - before.y = Sin(angle) * speed
    /\ (ticks = 1 /\ is_accelerating /\ ~is_braking
            /\ ~is_turning_left /\ ~is_turning_right) =>
        /\ speed = acceleration_rate - friction
        /\ x = start_x + 10000 * speed
        /\ y = start_y

\* a tick that turned the car and moved it in x and in y
C6_Witness ==
    /\ op = "update"
    /\ angle # before.angle
    /\ speed > 0
    /\ x # before.x
    /\ y # before.y

\* C12: a tick whose speed, as the steering step reads it, satisfies
\* |speed| > 0.1 changes the heading by steering_rate * (speed / max_speed)
\* per set steer flag, subtracted for steerLeft and added for steerRight:
\* forwards, left alone decreases the angle and right alone increases it;
\* reversing, the directions are inverted; both flags leave it unchanged.
C12_SteeringBySpeed ==
    (op = "apply_physics" /\ Abs(speed) > steering_dead_zone) =>
        LET turn == angle - before.angle
            flags == (IF is_turning_right THEN 1 ELSE 0)
                       - (IF is_turning_left THEN 1 ELSE 0)
        IN  /\ max_speed * turn = steering_rate * speed * flags
            /\ (speed > 0 /\ is_turning_left /\ ~is_turning_right) => turn < 0
            /\ (speed > 0 /\ is_turning_right /\ ~is_turning_left) => turn > 0
            /\ (speed < 0 /\ is_turning_left /\ ~is_turning_right) => turn > 0
            /\ (speed < 0 /\ is_turning_right /\ ~is_turning_left) => turn < 0
            /\ (is_turning_left /\ is_turning_right) => turn = 0

\* a reversing tick that steers left and turns the heading up
C12_Witness ==
    /\ op = "apply_physics"
    /\ speed < -steering_dead_zone
    /\ is_turning_left /\ ~is_turning_right
    /\ angle > before.angle

\* C13: from any state the car has reached, once every tick is without
\* control intent the speed reaches exactly 0 after finitely many ticks, no
\* such tick changes its sign or takes it away from 0, and a tick that
\* starts at speed 0 leaves speed, heading and position as they were,
\* whatever the steer flags are.
C13_CoastToRest ==
    /\ [](op = "coast" => <>(speed = 0))
    /\ [][op' = "coast" =>
            /\ speed >= 0 => (speed' >= 0 /\ speed' <= speed)
            /\ speed <= 0 => (speed' <= 0 /\ speed' >= speed)]_vars
    /\ [][(op' = "coast" /\ speed = 0) =>
            (speed' = 0 /\ angle' = angle /\ x' = x /\ y' = y)]_vars

\* a car that drove, turned and coasted to rest, on a further tick with a
\* steer flag set
C13_Witness ==
    /\ op = "coast"
    /\ before.speed = 0 /\ speed = 0
    /\ is_turning_left /\ ~is_turning_right
    /\ angle # 0 /\ x # start_x /\ y # start_y
    /\ angle = before.angle /\ x = before.x /\ y = before.y

\* C14: a car at rest that receives brake and no accelerate on every tick:
\* the first tick makes the speed negative, each tick that starts above
\* max_reverse_speed ends with a strictly smaller speed, the speed reaches
\* exactly max_reverse_speed, and every tick that starts at
\* max_reverse_speed ends at max_reverse_speed.
C14_BrakeToMaxReverseSpeed ==
    /\ [][speed = 0 => speed' < 0]_vars
    /\ [][speed > max_reverse_speed => speed' < speed]_vars
    /\ <>(speed = max_reverse_speed)
    /\ [][speed = max_reverse_speed => speed' = max_reverse_speed]_vars

\* a braking tick that began at max_reverse_speed and ended at it
C14_Witness ==
    /\ op = "apply_physics"
    /\ is_braking /\ ~is_accelerating
    /\ before.speed = max_reverse_speed
    /\ speed = max_reverse_speed

---------------------------------------------------------------------------
(* Properties of the track *)

\* the checkpoint with the index i of the program (which counts from 0)
Checkpoint(i) == checkpoints[i + 1]

\* C7: for a non-empty checkpoints sequence and any position,
\* get_checkpoint_index returns an index whose checkpoint is at minimal
\* Euclidean distance from the position, and the lowest such index; it
\* returns 0 for a position equal to checkpoints[0].
C7_NearestLowestIndex ==
    (op = "get_checkpoint_index" /\ checkpoints # <<>>) =>
        /\ nearest_idx \in 0..(Len(checkpoints) - 1)
        /\ \A j \in 0..(Len(checkpoints) - 1) :
               SqDist(position, Checkpoint(nearest_idx))
                   <= SqDist(position, Checkpoint(j))
        /\ \A j \in 0..(nearest_idx - 1) :
               SqDist(position, Checkpoint(j))
                   > SqDist(position, Checkpoint(nearest_idx))
        /\ position = Checkpoint(0) => nearest_idx = 0

\* a position equidistant from its two nearest checkpoints, neither of
\* them the first: the lower index is returned
C7_Witness ==
    /\ op = "get_checkpoint_index"
    /\ Len(checkpoints) = 3
    /\ nearest_idx = 1
    /\ SqDist(position, Checkpoint(2)) = SqDist(position, Checkpoint(1))
    /\ SqDist(position, Checkpoint(0)) > SqDist(position, Checkpoint(1))

\* The square of the distance from pos to the segment from p1 to p2
\* (p1 # p2), as num / den: to the endpoint the projection falls beyond, or
\* else to the line through p1 and p2.
SegmentSqDist(p1, p2, pos) ==
    LET l2 == SqDist(p1, p2)
        dot == (pos[1] - p1[1]) * (p2[1] - p1[1])
                 + (pos[2] - p1[2]) * (p2[2] - p1[2])
        cross == (pos[1] - p1[1]) * (p2[2] - p1[2])
                   - (pos[2] - p1[2]) * (p2[1] - p1[1])
    IN  IF dot <= 0 THEN [num |-> SqDist(pos, p1), den |-> 1]
        ELSE IF dot >= l2 THEN [num |-> SqDist(pos, p2), den |-> 1]
        ELSE [num |-> cross * cross, den |-> l2]

\* pos lies beside the segment from p1 to p2 (its projection falls on the
\* segment) at the perpendicular distance d
BesideAtDistance(p1, p2, pos, d) ==
    LET l2 == SqDist(p1, p2)
        dot == (pos[1] - p1[1]) * (p2[1] - p1[1])
                 + (pos[2] - p1[2]) * (p2[2] - p1[2])
        cross == (pos[1] - p1[1]) * (p2[2] - p1[2])
                   - (pos[2] - p1[2]) * (p2[1] - p1[1])
    IN  l2 > 0 /\ 0 <= dot /\ dot <= l2 /\ cross * cross = d * d * l2

\* C8: is_on_start_line(position, threshold) is true exactly when the
\* distance from position to the closest point of the start-line segment is
\* <= threshold, and for coinciding endpoints exactly when the distance to
\* that endpoint is <= threshold; with threshold 20 the midpoint of the
\* segment gives true and a point at perpendicular distance 21 gives false.
C8_StartLineDistance ==
    (op = "is_on_start_line" /\ start_line # NoStartLine) =>
        LET p1 == start_line[1]
            p2 == start_line[2]
            d == SegmentSqDist(p1, p2, position)
        IN  /\ p1 = p2 =>
                (on_start_line <=> SqDist(position, p1) <= threshold * threshold)
            /\ p1 # p2 =>
                (on_start_line <=> d.num <= threshold * threshold * d.den)
            /\ (threshold = 20 /\ 2 * position[1] = p1[1] + p2[1]
                    /\ 2 * position[2] = p1[2] + p2[2]) => on_start_line
            /\ (threshold = 20 /\ BesideAtDistance(p1, p2, position, 21))
                    => ~on_start_line

\* threshold 20 and a position beside the segment at distance 21
C8_Witness ==
    /\ op = "is_on_start_line"
    /\ start_line # NoStartLine
    /\ threshold = 20
    /\ BesideAtDistance(start_line[1], start_line[2], position, 21)
    /\ ~on_start_line

\* the edge from track_points[i] to its successor (i counts from 1)
EdgeOf(i) ==
    LET current == track_points[i]
        next_point == track_points[(i % Len(track_points)) + 1]
    IN  [dx |-> next_point[1] - current[1], dy |-> next_point[2] - current[2]]

\* C9: after _generate_boundaries both boundaries have the length of
\* track_points, and at every index whose edge has nonzero length outer[i]
\* and inner[i] are track_points[i] plus and minus half the track width
\* along the unit normal (-dy, dx) / length of the edge: track_points[i] is
\* their midpoint and they are track_width (100) apart.
C9_BoundaryOffsets ==
    op = "generate_boundaries" =>
        /\ Len(outer_boundary) = Len(track_points)
        /\ Len(inner_boundary) = Len(track_points)
        /\ \A i \in 1..Len(track_points) :
            LET e == EdgeOf(i)
                l2 == e.dx * e.dx + e.dy * e.dy
                o == outer_boundary[i]
                n == inner_boundary[i]
            IN  l2 > 0 =>
                  /\ o.length2 = l2 /\ n.length2 = l2
                  /\ o.cx = track_points[i][1] /\ o.cy = track_points[i][2]
                  /\ n.cx = track_points[i][1] /\ n.cy = track_points[i][2]
                  /\ 2 * o.px = -e.dy * track_width
                  /\ 2 * o.py = e.dx * track_width
                  /\ n.px = -o.px /\ n.py = -o.py
                  /\ (o.px - n.px) * (o.px - n.px) + (o.py - n.py) * (o.py - n.py)
                        = track_width * track_width * l2

\* the boundaries of a three-point centerline with an edge that is neither
\* horizontal nor vertical
C9_Witness ==
    /\ op = "generate_boundaries"
    /\ Len(track_points) = 3
    /\ \E i \in 1..Len(outer_boundary) :
          /\ outer_boundary[i].length2 > 1
          /\ outer_boundary[i].px # 0
          /\ outer_boundary[i].py # 0

\* the boundary point b is the centerline point p
IsCenterPoint(b, p) ==
    b.px = 0 /\ b.py = 0 /\ b.cx = p[1] /\ b.cy = p[2]

\* C10: _generate_boundaries divides by no zero length; at an index whose
\* edge has zero length (the only index of a single-point centerline
\* included) outer[i] = inner[i] = track_points[i]; an empty centerline
\* gives empty boundaries; get_checkpoint_index over no checkpoints
\* returns 0.
C10_DegenerateInput ==
    /\ op = "generate_boundaries" =>
        /\ \A i \in 1..Len(outer_boundary) :
              /\ outer_boundary[i].length2 > 0
              /\ inner_boundary[i].length2 > 0
              /\ (EdgeOf(i).dx = 0 /\ EdgeOf(i).dy = 0) =>
                    /\ IsCenterPoint(outer_boundary[i], track_points[i])
                    /\ IsCenterPoint(inner_boundary[i], track_points[i])
                    /\ outer_boundary[i] = inner_boundary[i]
        /\ track_points = <<>> =>
              (inner_boundary = <<>> /\ outer_boundary = <<>>)
    /\ (op = "get_checkpoint_index" /\ checkpoints = <<>>) => nearest_idx = 0

\* the boundaries of a single-point centerline, and then a query over no
\* checkpoints
C10_Witness ==
    /\ Len(track_points) = 1
    /\ Len(outer_boundary) = 1
    /\ IsCenterPoint(outer_boundary[1], track_points[1])
    /\ op = "get_checkpoint_index"
    /\ checkpoints = <<>>
    /\ position # <<0, 0>>
    /\ nearest_idx = 0

---------------------------------------------------------------------------
(* Properties of the engine and of the main loop *)

QuitRequested == \E i \in 1..Len(events) : events[i] \in {"QUIT", "KEYDOWN_ESCAPE"}

\* C11: the tick whose elapsed time is at or beyond TIME_LIMIT sets running
\* to false, and so does a tick that processes QUIT or ESCAPE; a tick
\* before the limit without them leaves the loop running; the tick that
\* ends the loop still runs its update, and once running is false no tick
\* and no update follows; as the elapsed time grows with every tick, the
\* loop eventually exits.
C11_SessionEnds ==
    /\ []((ticks > 0 /\ elapsed_time >= TIME_LIMIT) => ~running)
    /\ []((ticks > 0 /\ QuitRequested) => ~running)
    /\ []((ticks > 0 /\ elapsed_time < TIME_LIMIT /\ ~QuitRequested) => running)
    /\ [][running' # running => ticks' = ticks + 1]_vars
    /\ [][~running => (ticks' = ticks /\ carVars' = carVars)]_vars
    /\ <>(~running)

\* the loop ended by the tick whose elapsed time is exactly TIME_LIMIT,
\* without QUIT or ESCAPE
C11_Witness ==
    /\ ticks > 1
    /\ elapsed_time = TIME_LIMIT
    /\ ~QuitRequested
    /\ ~running

\* C15: after any sequence of GameEngine.update calls, with any keys and
\* wherever the car is, lap_count is 0, best_lap_time is infinity,
\* last_checkpoint is 0 and difficulty_level is 0.5.
C15_EngineStateUntouched ==
    /\ engine.lap_count = 0
    /\ engine.best_lap_time = Infinity
    /\ engine.last_checkpoint = 0
    /\ engine.difficulty_level = 50

\* after several updates the car is on the start line and nearest to a
\* checkpoint that is not last_checkpoint
C15_Witness ==
    /\ op = "update"
    /\ ticks > 1
    /\ IsOnStartLineOf(start_line, CarPixel(x, y), 20)
    /\ GetCheckpointIndexOf(checkpoints, CarPixel(x, y)) # engine.last_checkpoint
    /\ engine.lap_count = 0

====
